---- MODULE Spec2Model ----
(***************************************************************************)
(* A state-machine model of the trading backend (src/app.py): the module   *)
(* load (optional imports with stand-in fallback, environment read), the   *)
(* seven HTTP routes, and the process-wide trade list.                     *)
(*                                                                         *)
(* Conventions.  Python's Optional value is a sequence of length <= 1      *)
(* (None is <<>>).  A JSON body is a function from the field names that    *)
(* are present to their values.  The float 0.55 is written in hundredths.  *)
(* `last` is the last completed HTTP exchange: the route, the request      *)
(* body, what the capability in use did when called (its outcome), the     *)
(* capability calls the handler made, the status and the response body.    *)
(***************************************************************************)
EXTENDS Integers, Sequences, FiniteSets, TLC

VARIABLES
    phase,              \* "import" before app.py has been executed, then "serving"
    brokerImportable,   \* `from broker.angel_api import AngelAPI` raises nothing
    strategyImportable, \* `from strategies.supertrend import supertrend_signal` raises nothing
    osenv,              \* the process environment (os.environ)
    BROKER_OK, STRATEGY_OK,
    API_KEY, CLIENT_ID, PASSWORD, TOTP_SECRET,
    TRADES,
    now,                \* int(time.time())
    inflight,           \* GET /trades responses built by the handler and not yet serialized
    last

vars == <<phase, brokerImportable, strategyImportable, osenv, BROKER_OK, STRATEGY_OK,
          API_KEY, CLIENT_ID, PASSWORD, TOTP_SECRET, TRADES, now, inflight, last>>

config_vars == <<brokerImportable, strategyImportable, osenv, BROKER_OK, STRATEGY_OK,
                 API_KEY, CLIENT_ID, PASSWORD, TOTP_SECRET>>

(***************************************************************************)
(* Bounds of the model.                                                    *)
(***************************************************************************)
MaxTrades == 2
MaxTime == 1

None == <<>>
Some(v) == <<v>>

EnvNames == {"ANGEL_API_KEY", "ANGEL_CLIENT_ID", "ANGEL_PASSWORD", "ANGEL_TOTP_SECRET"}
\* A process environment maps the names that are set to their values.
SecretValues == {"", "k3y-A"}
EnvsOver(values) == UNION {[S -> values] : S \in SUBSET EnvNames}
OsEnvs == EnvsOver(SecretValues)

\* os.getenv(name, default) in the environment e
getenv(e, name, default) == IF name \in DOMAIN e THEN e[name] ELSE default

\* The four module globals of lines 88-91, as read from the environment e.
ReadEnv(e) ==
    [API_KEY |-> getenv(e, "ANGEL_API_KEY", ""),
     CLIENT_ID |-> getenv(e, "ANGEL_CLIENT_ID", ""),
     PASSWORD |-> getenv(e, "ANGEL_PASSWORD", ""),
     TOTP_SECRET |-> getenv(e, "ANGEL_TOTP_SECRET", "")]

Globals ==
    [API_KEY |-> API_KEY, CLIENT_ID |-> CLIENT_ID, PASSWORD |-> PASSWORD,
     TOTP_SECRET |-> TOTP_SECRET]

\* Python truthiness of a str, and the value of `a and b`.
Truthy(s) == s # ""
PyAnd(a, b) == IF Truthy(a) THEN b ELSE a

\* A variant that also requires the TOTP secret.
broker_connected_with_totp(g) ==
    Truthy(PyAnd(PyAnd(PyAnd(g.API_KEY, g.CLIENT_ID), g.PASSWORD), g.TOTP_SECRET))

\* broker_connected() with the module globals g
broker_connected(g) == Truthy(PyAnd(PyAnd(g.API_KEY, g.CLIENT_ID), g.PASSWORD))

(***************************************************************************)
(* Module load: lines 13-44 (one try block around both imports) and 83-91. *)
(***************************************************************************)
NoExchange ==
    [op |-> "none", req |-> <<>>, outcome |-> "n/a", calls |-> <<>>, status |-> 0,
     body |-> <<>>]

\* The flags after the try/except: the second import is reached only when the
\* first succeeded, and both flags are set only after both imports.
ImportFlags(bi, si) ==
    IF bi
    THEN IF si THEN [broker |-> TRUE, strategy |-> TRUE]
               ELSE [broker |-> FALSE, strategy |-> FALSE]
    ELSE [broker |-> FALSE, strategy |-> FALSE]

\* The process before app.py is executed, in one of the environments envs.
Start(envs) ==
    /\ phase = "import"
    /\ brokerImportable \in BOOLEAN
    /\ strategyImportable \in BOOLEAN
    /\ osenv \in envs
    /\ BROKER_OK = FALSE
    /\ STRATEGY_OK = FALSE
    /\ API_KEY = ""
    /\ CLIENT_ID = ""
    /\ PASSWORD = ""
    /\ TOTP_SECRET = ""
    /\ TRADES = <<>>
    /\ now = 0
    /\ inflight = <<>>
    /\ last = NoExchange

\* Four environments, one of each kind the order gate tells apart.
TypicalEnvs ==
    {[n \in EnvNames |-> "k3y-A"],
     <<>>,
     [n \in EnvNames \ {"ANGEL_TOTP_SECRET"} |-> "k3y-A"],
     [n \in EnvNames |-> IF n = "ANGEL_PASSWORD" THEN "" ELSE "k3y-A"]}

Init == Start(TypicalEnvs)

\* Every environment over SecretValues.
InitEnv == Start(OsEnvs)

LoadModule ==
    /\ phase = "import"
    /\ phase' = "serving"
    /\ BROKER_OK' = ImportFlags(brokerImportable, strategyImportable).broker
    /\ STRATEGY_OK' = ImportFlags(brokerImportable, strategyImportable).strategy
    /\ TRADES' = <<>>
    /\ API_KEY' = ReadEnv(osenv).API_KEY
    /\ CLIENT_ID' = ReadEnv(osenv).CLIENT_ID
    /\ PASSWORD' = ReadEnv(osenv).PASSWORD
    /\ TOTP_SECRET' = ReadEnv(osenv).TOTP_SECRET
    /\ UNCHANGED <<brokerImportable, strategyImportable, osenv, now, inflight, last>>

Tick ==
    /\ now < MaxTime
    /\ now' = now + 1
    /\ UNCHANGED <<phase, config_vars, TRADES, inflight, last>>

(***************************************************************************)
(* GET /, GET /health, GET /config                                         *)
(***************************************************************************)
Respond(op, req, outcome, calls, status, body) ==
    last' = [op |-> op, req |-> req, outcome |-> outcome, calls |-> calls,
             status |-> status, body |-> body]

Modules == [broker |-> BROKER_OK, strategy |-> STRATEGY_OK]

root ==
    /\ phase = "serving"
    /\ Respond("root", <<>>, "n/a", <<>>, 200,
               [message |-> "Trading Backend Online", version |-> "1.0.0"])
    /\ UNCHANGED <<phase, config_vars, TRADES, now, inflight>>

health_body(g, mods, t) ==
    [status |-> "ok", time |-> t, broker_env_configured |-> broker_connected(g),
     modules |-> mods]

health ==
    /\ phase = "serving"
    /\ Respond("health", <<>>, "n/a", <<>>, 200, health_body(Globals, Modules, now))
    /\ UNCHANGED <<phase, config_vars, TRADES, now, inflight>>

\* A variant that echoes the API key beside the presence flags.
config_body_with_key(g, mods) ==
    [env |-> [ANGEL_API_KEY_set |-> Truthy(g.API_KEY),
              ANGEL_CLIENT_ID_set |-> Truthy(g.CLIENT_ID),
              ANGEL_PASSWORD_set |-> Truthy(g.PASSWORD),
              ANGEL_TOTP_SECRET_set |-> Truthy(g.TOTP_SECRET)],
     api_key |-> g.API_KEY,
     modules |-> mods]

config_body(g, mods) ==
    [env |-> [ANGEL_API_KEY_set |-> Truthy(g.API_KEY),
              ANGEL_CLIENT_ID_set |-> Truthy(g.CLIENT_ID),
              ANGEL_PASSWORD_set |-> Truthy(g.PASSWORD),
              ANGEL_TOTP_SECRET_set |-> Truthy(g.TOTP_SECRET)],
     modules |-> mods]

config ==
    /\ phase = "serving"
    /\ Respond("config", <<>>, "n/a", <<>>, 200, config_body(Globals, Modules))
    /\ UNCHANGED <<phase, config_vars, TRADES, now, inflight>>

(***************************************************************************)
(* POST /strategy/run                                                      *)
(***************************************************************************)
\* dict.get(key, default); a dict is a function from its keys
DictGet(d, k, default) == IF k \in DOMAIN d THEN d[k] ELSE default

StrategyBodies ==
    {[symbol |-> "NIFTY"], [symbol |-> "RELIANCE", timeframe |-> "1m"]}
    \cup {[symbol |-> "RELIANCE", params |-> p] :
             p \in {[period |-> 10], [timeframe |-> "15m"]}}
    \cup {[timeframe |-> "1m"]}

\* StrategyRequest: symbol is required; timeframe and params have defaults.
StrategyRequestValid(body) == "symbol" \in DOMAIN body

StrategyRequest(body) ==
    [symbol |-> body.symbol,
     timeframe |-> DictGet(body, "timeframe", "5m"),
     params |-> DictGet(body, "params", <<>>)]

\* The stand-in's signature is (symbol, timeframe="5m", **kwargs): a keyword
\* that names a parameter already bound positionally is a TypeError at the call.
StubBindingFails(kwargs) == DOMAIN kwargs \cap {"symbol", "timeframe"} # {}

\* The stand-in signal at time t.
supertrend_signal(symbol, timeframe, t) ==
    [symbol |-> symbol, timeframe |-> timeframe,
     signal |-> IF t % 2 = 0 THEN "BUY" ELSE "SELL", confidence |-> 55]

\* What the real strategy module may do: raise, or return a value of its own.
SignalOutcomes == IF STRATEGY_OK THEN {"raises", "returns"} ELSE {"stand-in"}
RealSignal == [signal |-> "HOLD"]

SignalCall(req) ==
    [fn |-> "supertrend_signal", symbol |-> req.symbol, timeframe |-> req.timeframe,
     kwargs |-> req.params]

\* The call of line 133: [raised, calls, result]
run_signal(req, outcome) ==
    IF STRATEGY_OK
    THEN [raised |-> outcome = "raises", calls |-> <<SignalCall(req)>>, result |-> RealSignal]
    ELSE IF StubBindingFails(req.params)
         THEN [raised |-> TRUE, calls |-> <<>>, result |-> <<>>]
         ELSE [raised |-> FALSE, calls |-> <<SignalCall(req)>>,
               result |-> supertrend_signal(req.symbol, req.timeframe, now)]

run_strategy_result(body, outcome) ==
    IF ~StrategyRequestValid(body)
    THEN [outcome |-> "not called", calls |-> <<>>, status |-> 422,
          body |-> [detail |-> "validation error"]]
    ELSE LET run == run_signal(StrategyRequest(body), outcome) IN
         IF run.raised
         THEN [outcome |-> outcome, calls |-> run.calls, status |-> 500,
               body |-> [detail |-> "Strategy error"]]
         ELSE [outcome |-> outcome, calls |-> run.calls, status |-> 200,
               body |-> [ok |-> TRUE, data |-> run.result]]

run_strategy ==
    /\ phase = "serving"
    /\ \E body \in StrategyBodies, outcome \in SignalOutcomes :
          LET r == run_strategy_result(body, outcome) IN
          Respond("strategy", body, r.outcome, r.calls, r.status, r.body)
    /\ UNCHANGED <<phase, config_vars, TRADES, now, inflight>>

(***************************************************************************)
(* POST /orders                                                            *)
(***************************************************************************)
\* A pattern ^(a|b)$ matches exactly the alternatives.
FullMatch(alternatives, s) == s \in alternatives

FullOrder ==
    [symbol |-> "RELIANCE", side |-> "SELL", qty |-> 2, order_type |-> "LIMIT",
     price |-> 100]

GoodOrders == {[symbol |-> "NIFTY", side |-> "BUY", qty |-> 1], FullOrder}

Override(body, field, v) == [body EXCEPT ![field] = v]
Drop(body, field) == [f \in DOMAIN body \ {field} |-> body[f]]

BadOrders ==
    {Override(FullOrder, "side", v) : v \in {"buy", "BUYX"}}
    \cup {Override(FullOrder, "qty", v) : v \in {0, -1}}
    \cup {Override(FullOrder, "order_type", v) : v \in {"STOP"}}
    \cup {Override(FullOrder, "price", v) : v \in {0}}
    \cup {Drop(FullOrder, f) : f \in {"qty"}}

OrderBodies == GoodOrders \cup BadOrders

\* A variant whose qty bound is ge=0 instead of gt=0.
OrderRequestValid_ge(body) ==
    /\ {"symbol", "side", "qty"} \subseteq DOMAIN body
    /\ FullMatch({"BUY", "SELL"}, body.side)
    /\ body.qty >= 0
    /\ "order_type" \in DOMAIN body => FullMatch({"MARKET", "LIMIT"}, body.order_type)
    /\ "price" \in DOMAIN body => body.price > 0

OrderRequestValid(body) ==
    /\ {"symbol", "side", "qty"} \subseteq DOMAIN body
    /\ FullMatch({"BUY", "SELL"}, body.side)
    /\ body.qty > 0
    /\ "order_type" \in DOMAIN body => FullMatch({"MARKET", "LIMIT"}, body.order_type)
    /\ "price" \in DOMAIN body => body.price > 0

OrderRequest(body) ==
    [symbol |-> body.symbol, side |-> body.side, qty |-> body.qty,
     order_type |-> DictGet(body, "order_type", "MARKET"),
     price |-> IF "price" \in DOMAIN body THEN Some(body.price) ELSE None]

\* The stand-in AngelAPI.place_order at time t.
StubPlaceOrder(symbol, side, qty, order_type, t) ==
    [order_id |-> "SIM-" \o ToString(t), status |-> "accepted", symbol |-> symbol,
     side |-> side, qty |-> qty, type |-> order_type]

\* What the real broker module may do: raise in the constructor, raise in
\* place_order, return something without .get, or return a mapping.
RealResps == {[order_id |-> "AO-7", status |-> "complete"], <<>>}
BrokerOutcomes ==
    IF BROKER_OK
    THEN {[kind |-> "ctor_raises"], [kind |-> "place_raises"], [kind |-> "no_get"]}
         \cup {[kind |-> "returns", resp |-> r] : r \in RealResps}
    ELSE {[kind |-> "stand-in"]}

\* A variant in which a failing place_order is swallowed and an empty
\* response used instead.
run_broker_swallowing(req, outcome) ==
    IF BROKER_OK
    THEN CASE outcome.kind = "ctor_raises" ->
                [raised |-> TRUE, calls |-> <<"AngelAPI">>, resp |-> <<>>]
           [] outcome.kind = "no_get" ->
                [raised |-> TRUE, calls |-> <<"AngelAPI", "place_order">>, resp |-> <<>>]
           [] outcome.kind = "place_raises" ->
                [raised |-> FALSE, calls |-> <<"AngelAPI", "place_order">>, resp |-> <<>>]
           [] OTHER ->
                [raised |-> FALSE, calls |-> <<"AngelAPI", "place_order">>,
                 resp |-> outcome.resp]
    ELSE [raised |-> FALSE, calls |-> <<"AngelAPI", "place_order">>,
          resp |-> StubPlaceOrder(req.symbol, req.side, req.qty, req.order_type, now)]

\* Lines 145-146 and the two resp.get of lines 154-155: [raised, calls, resp]
run_broker(req, outcome) ==
    IF BROKER_OK
    THEN CASE outcome.kind = "ctor_raises" ->
                [raised |-> TRUE, calls |-> <<"AngelAPI">>, resp |-> <<>>]
           [] outcome.kind \in {"place_raises", "no_get"} ->
                [raised |-> TRUE, calls |-> <<"AngelAPI", "place_order">>, resp |-> <<>>]
           [] OTHER ->
                [raised |-> FALSE, calls |-> <<"AngelAPI", "place_order">>,
                 resp |-> outcome.resp]
    ELSE [raised |-> FALSE, calls |-> <<"AngelAPI", "place_order">>,
          resp |-> StubPlaceOrder(req.symbol, req.side, req.qty, req.order_type, now)]

\* A variant that leaves the price out of the record.
trade_rec_without_price(req, resp, t) ==
    [ts |-> t, symbol |-> req.symbol, side |-> req.side, qty |-> req.qty,
     order_type |-> req.order_type, price |-> None,
     broker_ref |-> IF "order_id" \in DOMAIN resp THEN Some(resp.order_id) ELSE None,
     status |-> DictGet(resp, "status", "unknown")]

trade_rec(req, resp, t) ==
    [ts |-> t, symbol |-> req.symbol, side |-> req.side, qty |-> req.qty,
     order_type |-> req.order_type, price |-> req.price,
     broker_ref |-> IF "order_id" \in DOMAIN resp THEN Some(resp.order_id) ELSE None,
     status |-> DictGet(resp, "status", "unknown")]

\* A variant of the gate that ignores which capability was resolved.
CredentialGate_any_capability == ~broker_connected(Globals)

\* The condition of line 140.
CredentialGate == ~broker_connected(Globals) /\ BROKER_OK

\* A variant that inserts at the front.
TradesInsertFront(trades, rec) == <<rec>> \o trades

\* TRADES.append(rec)
TradesAppend(trades, rec) == Append(trades, rec)

NotCalled == [kind |-> "not called"]

place_order_result(body, outcome) ==
    IF ~OrderRequestValid(body)
    THEN [outcome |-> NotCalled, calls |-> <<>>, status |-> 422,
          body |-> [detail |-> "validation error"], trades |-> TRADES]
    ELSE IF CredentialGate
    THEN [outcome |-> NotCalled, calls |-> <<>>, status |-> 400,
          body |-> [detail |-> "Broker credentials missing in environment."],
          trades |-> TRADES]
    ELSE LET req == OrderRequest(body)
             run == run_broker(req, outcome)
             rec == trade_rec(req, run.resp, now)
         IN  IF run.raised
             THEN [outcome |-> outcome, calls |-> run.calls, status |-> 500,
                   body |-> [detail |-> "Order failed"], trades |-> TRADES]
             ELSE [outcome |-> outcome, calls |-> run.calls, status |-> 200,
                   body |-> [ok |-> TRUE, order |-> rec],
                   trades |-> TradesAppend(TRADES, rec)]

place_order ==
    /\ phase = "serving"
    /\ Len(TRADES) < MaxTrades
    /\ \E body \in OrderBodies, outcome \in BrokerOutcomes :
          LET r == place_order_result(body, outcome) IN
          /\ Respond("orders", body, r.outcome, r.calls, r.status, r.body)
          /\ TRADES' = r.trades
    /\ UNCHANGED <<phase, config_vars, now, inflight>>

(***************************************************************************)
(* GET /trades.  The handler (a plain def, run on a worker thread) returns *)
(* len(TRADES) and the list object itself; the list is read again when the *)
(* response is serialized, after the handler has returned.                 *)
(***************************************************************************)
trades ==
    /\ phase = "serving"
    /\ inflight = <<>>
    /\ inflight' = <<[count |-> Len(TRADES)]>>
    /\ UNCHANGED <<phase, config_vars, TRADES, now, last>>

trades_body(held, list) == [count |-> held.count, items |-> list]

trades_send ==
    /\ phase = "serving"
    /\ inflight # <<>>
    /\ Respond("trades", <<>>, "n/a", <<>>, 200, trades_body(Head(inflight), TRADES))
    /\ inflight' = Tail(inflight)
    /\ UNCHANGED <<phase, config_vars, TRADES, now>>

(***************************************************************************)
(* POST /webhook/alert                                                     *)
(***************************************************************************)
\* Requests: the body, and request.client's host when there is a client.
WebhookRequests ==
    {[body |-> [source |-> "tradingview", event |-> "signal", payload |-> [x |-> 1]],
      client |-> Some("203.0.113.7")],
     [body |-> [source |-> "internal", event |-> "heartbeat"], client |-> None],
     [body |-> [source |-> "tradingview"], client |-> None]}

WebhookAlertValid(body) == {"source", "event"} \subseteq DOMAIN body

webhook_record(body, client, t) ==
    [ts |-> t, source |-> body.source, event |-> body.event,
     payload |-> DictGet(body, "payload", <<>>), ip |-> client]

webhook_alert ==
    /\ phase = "serving"
    /\ \E r \in WebhookRequests :
          IF WebhookAlertValid(r.body)
          THEN Respond("webhook", r.body, "n/a", <<>>, 200,
                       [ok |-> TRUE, received |-> webhook_record(r.body, r.client, now)])
          ELSE Respond("webhook", r.body, "n/a", <<>>, 422,
                       [detail |-> "validation error"])
    /\ UNCHANGED <<phase, config_vars, TRADES, now, inflight>>

Next ==
    \/ LoadModule
    \/ Tick
    \/ root
    \/ health
    \/ config
    \/ run_strategy
    \/ place_order
    \/ trades
    \/ trades_send
    \/ webhook_alert

Spec == Init /\ [][Next]_vars

\* The routes that read the credentials, in every environment.
NextEnv ==
    \/ LoadModule
    \/ Tick
    \/ health
    \/ config
    \/ place_order

SpecEnv == InitEnv /\ [][NextEnv]_vars

(***************************************************************************)
(* Vocabulary of the properties, stated on the environment and on the      *)
(* exchange `last`, not through the operators of the model.                *)
(***************************************************************************)
Present(e, n) == n \in DOMAIN e /\ e[n] # ""

ThreeConfigured ==
    \A n \in {"ANGEL_API_KEY", "ANGEL_CLIENT_ID", "ANGEL_PASSWORD"} : Present(osenv, n)

FourConfigured == \A n \in EnvNames : Present(osenv, n)

\* A body that is a valid OrderRequest, as the data model states it.
ValidOrderBody(b) ==
    /\ {"symbol", "side", "qty"} \subseteq DOMAIN b
    /\ b.side \in {"BUY", "SELL"}
    /\ b.qty > 0
    /\ "order_type" \in DOMAIN b => b.order_type \in {"MARKET", "LIMIT"}
    /\ "price" \in DOMAIN b => b.price > 0

\* A body with qty <= 0, or side not BUY or SELL, or order_type not MARKET or LIMIT.
BadOrderBody(b) ==
    \/ "qty" \in DOMAIN b /\ b.qty <= 0
    \/ "side" \in DOMAIN b /\ b.side \notin {"BUY", "SELL"}
    \/ "order_type" \in DOMAIN b /\ b.order_type \notin {"MARKET", "LIMIT"}

\* The record mirrors the request (order_type defaults to MARKET, price to None).
Mirrors(rec, b) ==
    /\ rec.symbol = b.symbol
    /\ rec.side = b.side
    /\ rec.qty = b.qty
    /\ rec.order_type = (IF "order_type" \in DOMAIN b THEN b.order_type ELSE "MARKET")
    /\ rec.price = (IF "price" \in DOMAIN b THEN <<b.price>> ELSE <<>>)

\* This step completes a POST /orders exchange.
OrdersStep ==
    /\ last'.op = "orders"
    /\ \/ last.op # "orders"
       \/ last' # last
       \/ TRADES' # TRADES

(***************************************************************************)
(* C1                                                                      *)
(***************************************************************************)
\* C1 as stated: after a POST /orders with a valid body, whatever the
\* capability and the credentials, the status is 200 and the last record of
\* the log is the returned one and mirrors the request.
C1_EveryValidOrderAccepted ==
    (last.op = "orders" /\ ValidOrderBody(last.req)) =>
        /\ last.status = 200
        /\ TRADES # <<>>
        /\ TRADES[Len(TRADES)] = last.body.order
        /\ Mirrors(last.body.order, last.req)

\* C1 amended: a POST /orders with a valid body returns 200 and appends
\* exactly one record mirroring the request, except that with the real
\* capability it returns 400 when API key, client id or password is missing
\* and 500 when the capability raises or returns something that is not a
\* mapping, the log then unchanged; with the stand-in capability it always
\* returns 200.
C1_ValidOrderAppendsUnlessRejected ==
    [][(OrdersStep /\ ValidOrderBody(last'.req)) =>
          /\ last'.status \in {200, 400, 500}
          /\ last'.status = 200 =>
                /\ TRADES' = Append(TRADES, last'.body.order)
                /\ Mirrors(last'.body.order, last'.req)
          /\ last'.status = 400 => (BROKER_OK /\ ~ThreeConfigured /\ TRADES' = TRADES)
          /\ last'.status = 500 => (BROKER_OK /\ ThreeConfigured /\ TRADES' = TRADES)
          /\ ~BROKER_OK => last'.status = 200]_vars

C1_Witness ==
    /\ last.op = "orders"
    /\ last.status = 200
    /\ Len(TRADES) = 2
    /\ TRADES[2].price = <<100>>
    /\ TRADES[1].price = <<>>

(***************************************************************************)
(* C2                                                                      *)
(***************************************************************************)
\* C2: in every GET /trades response, count is the number of records in items.
C2_CountIsItemsLength ==
    last.op = "trades" => last.body.count = Len(last.body.items)

(***************************************************************************)
(* C3                                                                      *)
(***************************************************************************)
\* C3: every step leaves the log unchanged or appends one record at its end,
\* and only a POST /orders answered 200 appends (the record it returns); the
\* items of a GET /trades response are the log, in the order of insertion.
C3_AppendOnly ==
    /\ [][\/ TRADES' = TRADES
          \/ /\ Len(TRADES') = Len(TRADES) + 1
             /\ TRADES' = Append(TRADES, TRADES'[Len(TRADES')])
             /\ last'.op = "orders"
             /\ last'.status = 200
             /\ last'.body.order = TRADES'[Len(TRADES')]]_vars
    /\ [](last.op = "trades" => last.body.items = TRADES)

C3_Witness ==
    /\ last.op = "trades"
    /\ Len(last.body.items) = 2
    /\ last.body.items[1].symbol = "RELIANCE"
    /\ last.body.items[2].symbol = "NIFTY"

(***************************************************************************)
(* C4                                                                      *)
(***************************************************************************)
\* C4: a valid POST /orders is answered 400 exactly when the real capability
\* was resolved and the credentials the gate reads (API key, client id,
\* password) are not all set; then no capability call is made and the log is
\* unchanged.  With the stand-in a valid order is answered 200 with status
\* "accepted" in every environment.
C4_CredentialGate ==
    /\ []((last.op = "orders" /\ ValidOrderBody(last.req)) =>
            /\ last.status = 400 <=> (BROKER_OK /\ ~ThreeConfigured)
            /\ last.status = 400 => last.calls = <<>>
            /\ ~BROKER_OK => (last.status = 200 /\ last.body.order.status = "accepted"))
    /\ [][(OrdersStep /\ last'.status = 400) => TRADES' = TRADES]_vars

C4_Witness ==
    /\ last.op = "orders"
    /\ last.status = 400
    /\ Len(TRADES) = 0
    /\ Present(osenv, "ANGEL_API_KEY")

(***************************************************************************)
(* C5                                                                      *)
(***************************************************************************)
\* C5 as stated: the configured flag of GET /health, and the passing of the
\* POST /orders gate, hold exactly when all four variables are set and
\* non-empty.
C5_ConfiguredIffAllFour ==
    /\ last.op = "health" => (last.body.broker_env_configured <=> FourConfigured)
    /\ (last.op = "orders" /\ ValidOrderBody(last.req) /\ BROKER_OK) =>
          (last.status # 400 <=> FourConfigured)

\* C5 amended: they hold exactly when ANGEL_API_KEY, ANGEL_CLIENT_ID and
\* ANGEL_PASSWORD are set and non-empty; ANGEL_TOTP_SECRET is not considered.
C5_ConfiguredIffThree ==
    /\ last.op = "health" => (last.body.broker_env_configured <=> ThreeConfigured)
    /\ (last.op = "orders" /\ ValidOrderBody(last.req) /\ BROKER_OK) =>
          (last.status # 400 <=> ThreeConfigured)

C5_Witness ==
    /\ last.op = "health"
    /\ last.body.broker_env_configured
    /\ "ANGEL_TOTP_SECRET" \in DOMAIN osenv
    /\ osenv["ANGEL_TOTP_SECRET"] = ""

(***************************************************************************)
(* C6                                                                      *)
(***************************************************************************)
\* C6: a POST /orders whose body has qty <= 0, a side other than BUY and
\* SELL, or an order_type other than MARKET and LIMIT is answered with a 4xx
\* status, no capability call is made, and the log is unchanged.
C6_BadOrderRejected ==
    /\ []((last.op = "orders" /\ BadOrderBody(last.req)) =>
            (last.status \in 400..499 /\ last.calls = <<>>))
    /\ [][(OrdersStep /\ BadOrderBody(last'.req)) => TRADES' = TRADES]_vars

C6_Witness ==
    /\ last.op = "orders"
    /\ "qty" \in DOMAIN last.req
    /\ last.req.qty = 0
    /\ last.status = 422
    /\ Len(TRADES) = 1

(***************************************************************************)
(* C7                                                                      *)
(***************************************************************************)
\* C7: when the signal capability raises in POST /strategy/run, or the order
\* capability raises in its constructor or in place_order, the answer is 500,
\* and POST /orders leaves the log as it was.
C7_CapabilityFailureIs500 ==
    /\ []((last.op = "strategy" /\ last.outcome = "raises") => last.status = 500)
    /\ []((last.op = "orders" /\ last.outcome.kind \in {"ctor_raises", "place_raises"})
            => last.status = 500)
    /\ [][(OrdersStep /\ last'.outcome.kind \in {"ctor_raises", "place_raises"})
            => TRADES' = TRADES]_vars

C7_Witness ==
    /\ last.op = "orders"
    /\ last.outcome.kind = "place_raises"
    /\ last.status = 500
    /\ Len(TRADES) = 1

(***************************************************************************)
(* C8                                                                      *)
(***************************************************************************)
OtherSecretValues == SecretValues \cup {"k3y-B"}

SamePresence(e1, e2) == \A n \in EnvNames : Present(e1, n) <=> Present(e2, n)

\* C8: the body of GET /health and of GET /config is the one a process with
\* the same flags (and clock) computes in any environment that agrees with
\* this one on which variables are set and non-empty, and holds the fixed
\* fields only, its secret-derived ones booleans.
C8_PresenceOnly ==
    /\ last.op = "health" =>
          /\ \A e2 \in EnvsOver(OtherSecretValues) :
                SamePresence(osenv, e2) =>
                   health_body(ReadEnv(e2), Modules, last.body.time) = last.body
          /\ DOMAIN last.body = {"status", "time", "broker_env_configured", "modules"}
          /\ last.body.broker_env_configured \in BOOLEAN
    /\ last.op = "config" =>
          /\ \A e2 \in EnvsOver(OtherSecretValues) :
                SamePresence(osenv, e2) => config_body(ReadEnv(e2), Modules) = last.body
          /\ DOMAIN last.body = {"env", "modules"}
          /\ \A f \in DOMAIN last.body.env : last.body.env[f] \in BOOLEAN

C8_Witness ==
    /\ last.op = "config"
    /\ last.body.env.ANGEL_API_KEY_set
    /\ ~last.body.env.ANGEL_TOTP_SECRET_set
    /\ BROKER_OK

(***************************************************************************)
(* C9                                                                      *)
(***************************************************************************)
\* C9: a POST /strategy/run whose body has a symbol and no timeframe calls
\* the signal capability with timeframe "5m" and, with the stand-in, is
\* answered 200 with data.symbol the symbol and data.timeframe "5m".
C9_DefaultTimeframe ==
    (last.op = "strategy" /\ "symbol" \in DOMAIN last.req
                          /\ "timeframe" \notin DOMAIN last.req) =>
        /\ Len(last.calls) = 1
        /\ last.calls[1].timeframe = "5m"
        /\ ~STRATEGY_OK =>
              /\ last.status = 200
              /\ last.body.ok
              /\ last.body.data.symbol = last.req.symbol
              /\ last.body.data.timeframe = "5m"

(***************************************************************************)
(* C10                                                                     *)
(***************************************************************************)
\* C10: once the module is loaded, the real broker is in use exactly when the
\* broker module imports, and the real strategy exactly when the strategy
\* module imports.
C10_ResolvedIndependently ==
    phase = "serving" =>
        /\ BROKER_OK = brokerImportable
        /\ STRATEGY_OK = strategyImportable
====
